---- MODULE Spec2Model ----
(***************************************************************************)
(* Recurring-message scheduler and guild reconciler of the restriction     *)
(* bot: syncCronJobs, the onTick closure of every cron job, syncServers,   *)
(* and the storage rows they read and write.                               *)
(*                                                                         *)
(* The process is a single-threaded event loop.  Every action below is one *)
(* callback run to its next await: the code between two awaits is atomic,  *)
(* and any other callback may run at an await.                             *)
(*                                                                         *)
(* Strings that the code edits or parses are sequences of one-character    *)
(* strings, so that String.replace and the cron expression parser are      *)
(* computed, not assumed.                                                  *)
(***************************************************************************)
EXTENDS Integers, Sequences, FiniteSets, TLC

(***************************************************************************)
(* Bounds of the model.                                                    *)
(***************************************************************************)
\* rows the RecurringMessageTask table ever holds (serial ids 1..MaxTasks)
MaxTasks == 2
\* syncCronJobs invocations started in one behaviour of Spec
MaxSyncs == 3
\* writes to the task table made in one behaviour of Spec
MaxWrites == 1
\* syncCronJobs invocations started in one behaviour of SpecFire
MaxFireSyncs == 2
\* writes to the task and message tables made in one behaviour of SpecFire
MaxFireWrites == 2
\* onTick executions followed at the same time in SpecFire
MaxTicks == 1
\* guilds the bot is ever a member of (ids 1..MaxGuilds)
MaxGuilds == 2
\* syncServers invocations started in one behaviour of SpecServers
MaxServerSyncs == 2
\* guild joins, leaves and renames in one behaviour of SpecServers
MaxGuildEvents == 1
\* syncServers invocations whose fetches of messages are followed in SpecBackfill
MaxBackfills == 1
\* rows of Keyword at the start of SpecMessages
MaxKeywords == 2
\* rows of WhitelistedStaffRole at the start of SpecMessages
MaxRoles == 1
\* rows of WhitelistedEmoji, and of BlacklistedEmoji, at the start of SpecReactions
MaxEmojis == 2

(***************************************************************************)
(* Character sequences.                                                    *)
(***************************************************************************)
Digits == <<"0", "1", "2", "3", "4", "5", "6", "7", "8", "9">>

IsDigit(c) == \E i \in 1..10 : Digits[i] = c

DigitVal(c) == (CHOOSE i \in 1..10 : Digits[i] = c) - 1

\* does s hold pat at index i
MatchAt(s, pat, i) ==
    /\ i + Len(pat) - 1 <= Len(s)
    /\ \A k \in 1..Len(pat) : s[i + k - 1] = pat[k]

\* String.prototype.replace with a string pattern: the first occurrence only,
\* and the subject unchanged when the pattern does not occur
Replace(s, pat, rep) ==
    LET hits == {i \in 1..Len(s) : MatchAt(s, pat, i)}
    IN  IF hits = {} THEN s
        ELSE LET i == CHOOSE h \in hits : \A g \in hits : h <= g
             IN  SubSeq(s, 1, i - 1) \o rep \o SubSeq(s, i + Len(pat), Len(s))

\* the template of syncCronJobs: '0 {min} {hour} * * {day}'
cronTab ==
    <<"0", " ", "{", "m", "i", "n", "}", " ", "{", "h", "o", "u", "r", "}",
      " ", "*", " ", "*", " ", "{", "d", "a", "y", "}">>

\* cronTabString with the minute and the hour in each other's place
cronTabSwapped(task) ==
    Replace(
        Replace(
            Replace(cronTab, <<"{", "m", "i", "n", "}">>, task.utcTimeHour),
            <<"{", "h", "o", "u", "r", "}">>, task.utcTimeMinute),
        <<"{", "d", "a", "y", "}">>, task.dayOfWeek)

\* the trigger string syncCronJobs builds for a task
cronTabString(task) ==
    Replace(
        Replace(
            Replace(cronTab, <<"{", "m", "i", "n", "}">>, task.utcTimeMinute),
            <<"{", "h", "o", "u", "r", "}">>, task.utcTimeHour),
        <<"{", "d", "a", "y", "}">>, task.dayOfWeek)

(***************************************************************************)
(* The cron expression as CronJob.from reads it: six fields separated by   *)
(* blanks; a field is the wildcard, a decimal number in the range of the   *)
(* field, or (day of week) a three-letter day name.  CronJob.from throws   *)
(* on anything else.                                                       *)
(***************************************************************************)
RECURSIVE SplitBlank(_)
SplitBlank(s) ==
    IF \A i \in 1..Len(s) : s[i] # " " THEN <<s>>
    ELSE LET i == CHOOSE h \in 1..Len(s) :
                      s[h] = " " /\ \A g \in 1..(h - 1) : s[g] # " "
         IN  <<SubSeq(s, 1, i - 1)>> \o SplitBlank(SubSeq(s, i + 1, Len(s)))

RECURSIVE ParseInt(_)
ParseInt(s) ==
    IF Len(s) = 0 THEN 0
    ELSE 10 * ParseInt(SubSeq(s, 1, Len(s) - 1)) + DigitVal(s[Len(s)])

IsNumber(s) == Len(s) > 0 /\ \A i \in 1..Len(s) : IsDigit(s[i])

DayNames ==
    {<<"S", "U", "N">>, <<"M", "O", "N">>, <<"T", "U", "E">>, <<"W", "E", "D">>,
     <<"T", "H", "U">>, <<"F", "R", "I">>, <<"S", "A", "T">>}

FieldInRange(f, lo, hi) ==
    \/ f = <<"*">>
    \/ IsNumber(f) /\ ParseInt(f) >= lo /\ ParseInt(f) <= hi

ValidCronTime(s) ==
    LET f == SplitBlank(s)
    IN  /\ Len(f) = 6
        /\ FieldInRange(f[1], 0, 59)
        /\ FieldInRange(f[2], 0, 59)
        /\ FieldInRange(f[3], 0, 23)
        /\ FieldInRange(f[4], 1, 31)
        /\ FieldInRange(f[5], 1, 12)
        /\ (FieldInRange(f[6], 0, 7) \/ f[6] \in DayNames)

(***************************************************************************)
(* Rows of the store.  A text is the number of the revision of the body:   *)
(* every edit writes a body no earlier revision had.                       *)
(***************************************************************************)
\* (dayOfWeek, utcTimeHour, utcTimeMinute) values the rows are drawn from: the
\* columns are free strings, the last value is an hour the trigger cannot hold
Schedules ==
    {[dayOfWeek |-> <<"M", "O", "N">>, utcTimeHour |-> <<"9">>, utcTimeMinute |-> <<"0">>],
     [dayOfWeek |-> <<"*">>, utcTimeHour |-> <<"1", "2">>, utcTimeMinute |-> <<"3", "0">>],
     [dayOfWeek |-> <<"M", "O", "N">>, utcTimeHour |-> <<"2", "4">>, utcTimeMinute |-> <<"0">>]}

MessageIds == {1}

ChannelIds == {"c1", "c2"}

TaskRow(id, m, sch) ==
    [id |-> id, recurringMessageId |-> m, dayOfWeek |-> sch.dayOfWeek,
     utcTimeHour |-> sch.utcTimeHour, utcTimeMinute |-> sch.utcTimeMinute]

ScheduleOf(task) ==
    [dayOfWeek |-> task.dayOfWeek, utcTimeHour |-> task.utcTimeHour,
     utcTimeMinute |-> task.utcTimeMinute]

\* cronTabString and the verdict of CronJob.from on it, tabulated over Schedules
CronTabStrings == [sch \in Schedules |-> cronTabString(sch)]

Accepted == [sch \in Schedules |-> ValidCronTime(CronTabStrings[sch])]

\* the cronTime a task is scheduled with
CronTimeOf(task) == CronTabStrings[ScheduleOf(task)]

\* does CronJob.from take the task, or throw
Compiles(task) == Accepted[ScheduleOf(task)]

Ids(rows) == {r.id : r \in rows}

\* the orders in which a find({}) without ORDER BY can return a set of rows
Orders(rows) ==
    {s \in [1..Cardinality(rows) -> rows] :
        \A i, j \in 1..Cardinality(rows) : i # j => s[i] # s[j]}

\* tables the process can find at start: ids are serial
InitTables ==
    {t \in SUBSET {TaskRow(i, m, sch) : i \in 1..MaxTasks, m \in MessageIds, sch \in Schedules} :
        /\ \A a, b \in t : a.id = b.id => a = b
        /\ \A a \in t : \A i \in 1..a.id : i \in Ids(t)}

VARIABLES
    tasks,        \* rows of RecurringMessageTask
    nextTaskId,   \* next value of the serial primary key of RecurringMessageTask
    messages,     \* rows of RecurringMessage
    budget,       \* what is left of the bounds: calls of syncCronJobs, writes, ticks followed
    cronJobs,     \* the module-level list cronJobs
    running,      \* the CronJob objects started and not stopped
    syncs,        \* syncCronJobs invocations in flight
    nextSync,     \* number of the next syncCronJobs invocation
    ticks,        \* onTick executions in flight
    stable,       \* ids of tasks that got a job and were not written since
    history,      \* what happened to a job: its message edited, a dispatch of it failed
    lastOp,       \* the callback that ran last, and what it did
    revision,     \* which of the three revisions of syncServers the process runs
    guilds,       \* client.guilds.cache: the guilds the bot is in, with their names
    servers,      \* rows of Server
    dependents,   \* rows of Keyword and WhitelistedEmoji, by the server they refer to
    pending,      \* writes issued and not awaited, not yet run by the store
    serverSyncs,  \* syncServers invocations in flight
    calm,         \* the last syncServers returned and no guild changed since its call
    process,      \* the Node process: up, handling an unhandled rejection, or exited
    reconciled,   \* the syncServers call that returned last with the guilds as at its call
    inserted,     \* the inserts of Server rows the store took
    storage,      \* the DataSource: closed, initializing, initialized, failed or absent
    backfill,     \* the fetches of messages syncServers issued, and how many calls are followed
    moderation    \* the rows the message and reaction handlers read

guildVars ==
    <<revision, guilds, servers, dependents, pending, serverSyncs, calm, reconciled, inserted,
      storage, backfill, moderation>>

vars ==
    <<tasks, nextTaskId, messages, budget, cronJobs, running, syncs, nextSync,
      ticks, stable, history, lastOp, revision, guilds, servers, dependents,
      pending, serverSyncs, calm, process, reconciled, inserted, storage, backfill, moderation>>

\* await getPostgres: the DataSource, once it is initialized
getPostgres == storage = "initialized"

\* the identities of the CronJob objects of a list, in its order
JobIds(jobs) == [i \in 1..Len(jobs) |-> jobs[i].cronJob.jid]

\* the CronJob objects a list of RecurringMessageTaskCronJob refers to
CronJobsOf(jobs) == {jobs[i].cronJob : i \in 1..Len(jobs)}

(***************************************************************************)
(* syncCronJobs                                                            *)
(***************************************************************************)
\* a call of syncCronJobs: the body runs to `await sleep(2000)`
CallSyncCronJobs(st) ==
    [id |-> nextSync, pc |-> "sleep", rows |-> {},
     solo |-> (st = {}), unchanged |-> TRUE,
     before |-> [cronJobs |-> JobIds(cronJobs), running |-> {j.jid : j \in running}]]

\* the invocations in flight when one more is called
Overlapped(st) == {[s EXCEPT !.solo = FALSE] : s \in st}

\* the invocations in flight when the task table is written
TableWritten(st) == {[s EXCEPT !.unchanged = FALSE] : s \in st}

\* setInterval(() => syncCronJobs(), 1000 * 60)
TimerSyncCronJobs ==
    /\ process = "up"
    /\ budget.syncs > 0
    /\ syncs' = Overlapped(syncs) \cup {CallSyncCronJobs(syncs)}
    /\ nextSync' = nextSync + 1
    /\ budget' = [budget EXCEPT !.syncs = @ - 1]
    /\ UNCHANGED <<guildVars, process>>
    /\ lastOp' = [op |-> "call", id |-> nextSync]
    /\ UNCHANGED <<tasks, nextTaskId, messages, cronJobs, running, ticks, stable, history>>

\* StopAll without the stop loop: the list is emptied, its jobs keep running
StopNone(jobs, run) == run

\* cronJobs.forEach(job => job.cronJob.stop())
StopAll(jobs, run) == run \ CronJobsOf(jobs)

\* the sleep is over: stop every job of the list, empty the list, issue the find
SyncWake(s) ==
    /\ process = "up"
    /\ s.pc = "sleep"
    /\ running' = StopAll(cronJobs, running)
    /\ cronJobs' = <<>>
    /\ syncs' = (syncs \ {s}) \cup {[s EXCEPT !.pc = "find"]}
    /\ UNCHANGED <<guildVars, process>>
    /\ lastOp' = [op |-> "wake", id |-> s.id]
    /\ UNCHANGED <<tasks, nextTaskId, messages, budget, nextSync, ticks, stable, history>>

\* SyncFindRun with the find issued before the sleep: the rows of the table
\* when the invocation was called
SyncFindAtCall(s) ==
    /\ process = "up"
    /\ getPostgres
    /\ s.pc = "find"
    /\ syncs' = (syncs \ {s}) \cup
            {[s EXCEPT !.pc = "found",
                       !.rows = tasks \cup {w.row : w \in {x \in pending : x.asOf > s.id}}]}
    /\ UNCHANGED <<guildVars, process>>
    /\ lastOp' = [op |-> "find", id |-> s.id]
    /\ UNCHANGED <<tasks, nextTaskId, messages, budget, cronJobs, running, nextSync,
                   ticks, stable, history>>

\* the store runs the find: the rows of the table at that moment
SyncFindRun(s) ==
    /\ process = "up"
    /\ getPostgres
    /\ s.pc = "find"
    /\ syncs' = (syncs \ {s}) \cup {[s EXCEPT !.pc = "found", !.rows = tasks]}
    /\ UNCHANGED <<guildVars, process>>
    /\ lastOp' = [op |-> "find", id |-> s.id]
    /\ UNCHANGED <<tasks, nextTaskId, messages, budget, cronJobs, running, nextSync,
                   ticks, stable, history>>

\* the find rejects: the await throws and the invocation ends there
SyncFindReject(s) ==
    /\ process = "up"
    /\ getPostgres
    /\ process' = "rejected"
    /\ s.pc = "find"
    /\ syncs' = syncs \ {s}
    /\ UNCHANGED guildVars
    /\ lastOp' = [op |-> "syncFailed", id |-> s.id, solo |-> s.solo,
                  unchanged |-> s.unchanged, before |-> s.before]
    /\ UNCHANGED <<tasks, nextTaskId, messages, budget, cronJobs, running, nextSync,
                   ticks, stable, history>>

\* the element pushed for a task: CronJob.from({cronTime, onTick, start: true})
NewJob(id, i, task) ==
    [taskId |-> task.recurringMessageId,
     cronJob |-> [jid |-> <<id, i>>, cronTime |-> CronTimeOf(task), task |-> task]]

\* how many tasks of the list the for loop handles before CronJob.from throws
Scheduled(list) ==
    IF \A i \in 1..Len(list) : Compiles(list[i])
    THEN Len(list)
    ELSE (CHOOSE i \in 1..Len(list) :
             ~Compiles(list[i]) /\ \A k \in 1..(i - 1) : Compiles(list[k])) - 1

\* the jobs the for loop pushes
Pushed(id, list) == [i \in 1..Scheduled(list) |-> NewJob(id, i, list[i])]

\* the find resolved with the rows in some order (activeRecurringMessageTask):
\* the for loop pushes a started job per task onto the list
SyncSchedule(s) ==
    /\ process = "up"
    /\ s.pc = "found"
    /\ \E activeRecurringMessageTask \in Orders(s.rows) :
        LET pushed == Pushed(s.id, activeRecurringMessageTask) IN
        /\ cronJobs' = cronJobs \o pushed
        /\ running' = running \cup CronJobsOf(pushed)
        /\ stable' = stable \cup {j.task.id : j \in {x \in CronJobsOf(pushed) : x.task \in tasks}}
        /\ UNCHANGED guildVars
        /\ process' = IF Len(pushed) < Cardinality(s.rows) THEN "rejected" ELSE "up"
        /\ lastOp' = [op |-> "syncDone", id |-> s.id, solo |-> s.solo,
                      unchanged |-> s.unchanged, rows |-> s.rows,
                      threw |-> (Len(pushed) < Cardinality(s.rows))]
    /\ syncs' = syncs \ {s}
    /\ UNCHANGED <<tasks, nextTaskId, messages, budget, nextSync, ticks, history>>

(***************************************************************************)
(* Writes of the administrative interface.  The entity listeners of        *)
(* RecurringMessageTask call syncCronJobs after every insert, update and   *)
(* remove; RecurringMessage has no listener.                               *)
(***************************************************************************)
\* an entity without listeners: the write calls nothing
NoListener ==
    /\ syncs' = TableWritten(syncs)
    /\ nextSync' = nextSync
    /\ budget' = [budget EXCEPT !.writes = @ - 1]

\* afterInsert, afterUpdate, afterRemove: syncCronJobs()
TaskListener ==
    /\ syncs' = TableWritten(Overlapped(syncs)) \cup {CallSyncCronJobs(syncs)}
    /\ nextSync' = nextSync + 1
    /\ budget' = [budget EXCEPT !.syncs = @ - 1, !.writes = @ - 1]

InsertTask(m, sch) ==
    /\ process = "up"
    /\ budget.writes > 0
    /\ budget.syncs > 0
    /\ nextTaskId <= MaxTasks
    /\ m \in Ids(messages)
    /\ tasks' = tasks \cup {TaskRow(nextTaskId, m, sch)}
    /\ nextTaskId' = nextTaskId + 1
    /\ TaskListener
    /\ UNCHANGED <<guildVars, process>>
    /\ lastOp' = [op |-> "insertTask", id |-> nextTaskId]
    /\ UNCHANGED <<messages, cronJobs, running, ticks, stable, history>>

UpdateTask(t, sch) ==
    /\ process = "up"
    /\ budget.writes > 0
    /\ budget.syncs > 0
    /\ t \in tasks
    /\ TaskRow(t.id, t.recurringMessageId, sch) # t
    /\ tasks' = (tasks \ {t}) \cup {TaskRow(t.id, t.recurringMessageId, sch)}
    /\ stable' = stable \ {t.id}
    /\ TaskListener
    /\ UNCHANGED <<guildVars, process>>
    /\ lastOp' = [op |-> "updateTask", id |-> t.id]
    /\ UNCHANGED <<nextTaskId, messages, cronJobs, running, ticks, history>>

DeleteTask(t) ==
    /\ process = "up"
    /\ budget.writes > 0
    /\ budget.syncs > 0
    /\ t \in tasks
    /\ tasks' = tasks \ {t}
    /\ stable' = stable \ {t.id}
    /\ TaskListener
    /\ UNCHANGED <<guildVars, process>>
    /\ lastOp' = [op |-> "deleteTask", id |-> t.id]
    /\ UNCHANGED <<nextTaskId, messages, cronJobs, running, ticks, history>>

\* the rows of RecurringMessage at process start
InitMessages ==
    {[id |-> m, channelId |-> "c1", text |-> 0, sendAsEmbed |-> FALSE,
      embedColor |-> "#f7981d"] : m \in MessageIds}

\* the channel, flag and colour an edit of a RecurringMessage can leave
Edits ==
    {[channelId |-> "c1", sendAsEmbed |-> FALSE, embedColor |-> "#f7981d"],
     [channelId |-> "c2", sendAsEmbed |-> TRUE, embedColor |-> "#00ff00"]}

\* an edit of a RecurringMessage: a new body, and the other columns as in e
EditMessage(r, e) ==
    /\ process = "up"
    /\ budget.writes > 0
    /\ r \in messages
    /\ messages' = (messages \ {r}) \cup
            {[r EXCEPT !.text = r.text + 1, !.channelId = e.channelId,
                       !.sendAsEmbed = e.sendAsEmbed, !.embedColor = e.embedColor]}
    /\ budget' = [budget EXCEPT !.writes = @ - 1]
    /\ ticks' = {IF k.job.task.recurringMessageId = r.id
                 THEN [k EXCEPT !.written = TRUE] ELSE k : k \in ticks}
    /\ history' = history \cup
            {<<"edited", j.jid>> : j \in {x \in running : x.task.recurringMessageId = r.id}}
    /\ UNCHANGED <<guildVars, process>>
    /\ lastOp' = [op |-> "editMessage", id |-> r.id]
    /\ UNCHANGED <<tasks, nextTaskId, cronJobs, running, syncs, nextSync, stable>>

\* the foreign key of RecurringMessageTask.recurringMessageId refuses the
\* delete while a task refers to the message
DeleteMessage(r) ==
    /\ process = "up"
    /\ budget.writes > 0
    /\ r \in messages
    /\ \A t \in tasks : t.recurringMessageId # r.id
    /\ messages' = messages \ {r}
    /\ budget' = [budget EXCEPT !.writes = @ - 1]
    /\ ticks' = {IF k.job.task.recurringMessageId = r.id
                 THEN [k EXCEPT !.written = TRUE] ELSE k : k \in ticks}
    /\ UNCHANGED <<guildVars, process>>
    /\ lastOp' = [op |-> "deleteMessage", id |-> r.id]
    /\ UNCHANGED <<tasks, nextTaskId, cronJobs, running, syncs, nextSync, stable, history>>

(***************************************************************************)
(* The trigger of a job and its onTick                                     *)
(***************************************************************************)
\* the trigger strings that have a scheduled instant someone waits for
CronTimes ==
    {j.cronTime : j \in running} \cup
    {CronTimeOf(t) : t \in {x \in tasks : Compiles(x)}}

\* the jobs whose timer fires at an instant of the trigger string c
Firing(c, run) == {j \in run : j.cronTime = c}

\* onTick starts: findOne({where: {id: task.recurringMessageId}}) is issued
StartTick(j) == [job |-> j, pc |-> "findOne", recurringMessage |-> {}, written |-> FALSE]

\* the onTick executions of an instant the model follows: all of them while
\* no more than budget.ticks are in flight, else as many as still fit
Followed(fired) ==
    {f \in SUBSET fired :
        /\ Cardinality(ticks \cup {StartTick(j) : j \in f}) <= budget.ticks
        /\ \A g \in SUBSET fired :
              Cardinality(ticks \cup {StartTick(j) : j \in g}) <= budget.ticks
                  => Cardinality(g) <= Cardinality(f)}

\* a scheduled instant of c: every running job with that trigger calls onTick
Instant(c) ==
    /\ process = "up"
    /\ c \in CronTimes
    /\ \E f \in Followed(Firing(c, running)) :
            ticks' = ticks \cup {StartTick(j) : j \in f}
    /\ UNCHANGED <<guildVars, process>>
    /\ lastOp' = [op |-> "instant", cronTime |-> c, fired |-> Firing(c, running)]
    /\ UNCHANGED <<tasks, nextTaskId, messages, budget, cronJobs, running, syncs,
                   nextSync, stable, history>>

\* how an onTick execution ended: was the row missing, the error that rejected
\* it, what it handed to channel.send, and whether that send went through
TickEnd(k, missing, error, sent, delivered) ==
    [op |-> "tickEnd", job |-> k.job, written |-> k.written, missing |-> missing,
     error |-> error, sent |-> sent, delivered |-> delivered]

\* FindOne answered from the rows as they were at process start
FindOneCached(id) == {r \in InitMessages : r.id = id}

\* findOne: the row with the id, or null
FindOne(id) == {r \in messages : r.id = id}

\* findOne resolved with a row: client.channels.fetch(recurringMessage.channelId)
TickFindOne(k) ==
    /\ process = "up"
    /\ k.pc = "findOne"
    /\ FindOne(k.job.task.recurringMessageId) # {}
    /\ ticks' = (ticks \ {k}) \cup
            {[k EXCEPT !.pc = "fetch",
                       !.recurringMessage = FindOne(k.job.task.recurringMessageId)]}
    /\ UNCHANGED <<guildVars, process>>
    /\ lastOp' = [op |-> "findOne", job |-> k.job]
    /\ UNCHANGED <<tasks, nextTaskId, messages, budget, cronJobs, running, syncs,
                   nextSync, stable, history>>

\* findOne resolved with null: the `!` checks nothing at run time, and
\* recurringMessage.channelId throws a TypeError that rejects onTick
TickFindOneNull(k) ==
    /\ process = "up"
    /\ process' = "rejected"
    /\ k.pc = "findOne"
    /\ FindOne(k.job.task.recurringMessageId) = {}
    /\ ticks' = ticks \ {k}
    /\ UNCHANGED guildVars
    /\ lastOp' = TickEnd(k, TRUE, "TypeError", {}, FALSE)
    /\ UNCHANGED <<tasks, nextTaskId, messages, budget, cronJobs, running, syncs,
                   nextSync, stable, history>>

\* what onTick hands to channel.send
Dispatch(row) ==
    IF row.sendAsEmbed
    THEN [channel |-> row.channelId, kind |-> "embed", text |-> row.text,
          colour |-> row.embedColor]
    ELSE [channel |-> row.channelId, kind |-> "text", text |-> row.text,
          colour |-> "none"]

\* the channel is fetched: channel.send is called and not awaited, so its
\* outcome is nobody's to see
TickSend(k, delivered) ==
    /\ process = "up"
    /\ k.pc = "fetch"
    /\ ticks' = ticks \ {k}
    /\ UNCHANGED guildVars
    /\ process' = IF delivered THEN "up" ELSE "rejected"
    /\ lastOp' = TickEnd(k, FALSE, "none", {Dispatch(r) : r \in k.recurringMessage}, delivered)
    /\ history' = IF delivered THEN history ELSE history \cup {<<"failed", k.job.jid>>}
    /\ UNCHANGED <<tasks, nextTaskId, messages, budget, cronJobs, running, syncs,
                   nextSync, stable>>

\* client.channels.fetch rejects: onTick rejects, nothing is sent
TickFetchReject(k) ==
    /\ process = "up"
    /\ process' = "rejected"
    /\ k.pc = "fetch"
    /\ ticks' = ticks \ {k}
    /\ UNCHANGED guildVars
    /\ lastOp' = TickEnd(k, FALSE, "fetch", {}, FALSE)
    /\ history' = history \cup {<<"failed", k.job.jid>>}
    /\ UNCHANGED <<tasks, nextTaskId, messages, budget, cronJobs, running, syncs,
                   nextSync, stable>>

(***************************************************************************)
(* syncServers, in its three revisions:                                    *)
(*   "deleting"   deletes the rows of the guilds the bot left and relabels *)
(*                the others; no write is awaited                          *)
(*   "unawaited"  only inserts the missing rows, and does not await them   *)
(*   "awaited"    only inserts the missing rows, and awaits each insert    *)
(***************************************************************************)
Revisions == {"deleting", "unawaited", "awaited"}

GuildIds == 1..MaxGuilds

\* client.guilds.cache.map(guild => guild.id)
LiveIds(cache) == {g.id : g \in cache}

\* client.guilds.cache.get(id)?.name
GuildName(cache, id) ==
    IF id \in LiveIds(cache) THEN (CHOOSE g \in cache : g.id = id).name ELSE "undefined"

StoredIds(rows) == {r.serverId : r \in rows}

\* the elements of a set of ids in the order of the cache
RECURSIVE InOrder(_)
InOrder(ids) ==
    IF ids = {} THEN <<>>
    ELSE LET m == CHOOSE x \in ids : \A y \in ids : x <= y
         IN  <<m>> \o InOrder(ids \ {m})

\* newlyCreatedServerIds that finds nothing to insert
NothingNew(serversIds, storedServers) == {}

\* serversIds.filter(id => !storedServers.map(server => server.serverId).includes(id))
newlyCreatedServerIds(serversIds, storedServers) == serversIds \ StoredIds(storedServers)

Write(by, kind, table, id, name) ==
    [by |-> by, kind |-> kind, table |-> table, serverId |-> id, name |-> name]

\* the first loop of the deleting revision: three deletes for a row whose guild
\* is gone, an update of the name for every other row
StaleWrites(v, storedServers) ==
    UNION {IF r.serverId \notin v.serversIds
           THEN {Write(v.id, "delete", "Keyword", r.serverId, "-"),
                 Write(v.id, "delete", "WhitelistedEmoji", r.serverId, "-"),
                 Write(v.id, "delete", "Server", r.serverId, "-")}
           ELSE {Write(v.id, "update", "Server", r.serverId, GuildName(guilds, r.serverId))}
           : r \in storedServers}

\* getRepository(Server).insert({serverId: id, name: client.guilds.cache.get(id)?.name})
InsertWrite(v, id) == Write(v.id, "insert", "Server", id, GuildName(guilds, id))

\* does the store take a write: serverId is unique, name is not nullable, and
\* the foreign keys of Keyword and WhitelistedEmoji hold a Server row in place
Takes(w) ==
    CASE w.kind = "insert" -> w.serverId \notin StoredIds(servers) /\ w.name # "undefined"
      [] w.kind = "update" -> w.name # "undefined"
      [] w.kind = "delete" /\ w.table = "Server" ->
            \A d \in dependents : d.serverId # w.serverId
      [] OTHER -> TRUE

\* the rows of Server after the store took a write
ServersAfter(w) ==
    CASE w.kind = "insert" -> servers \cup {[serverId |-> w.serverId, name |-> w.name]}
      [] w.kind = "update" ->
            {IF r.serverId = w.serverId THEN [r EXCEPT !.name = w.name] ELSE r : r \in servers}
      [] w.kind = "delete" /\ w.table = "Server" -> {r \in servers : r.serverId # w.serverId}
      [] OTHER -> servers

\* the rows of Keyword and WhitelistedEmoji after the store took a write
DependentsAfter(w) ==
    IF w.kind = "delete" /\ w.table # "Server"
    THEN {d \in dependents : ~(d.table = w.table /\ d.serverId = w.serverId)}
    ELSE dependents

\* the store runs a write nobody awaits; a write it refuses changes nothing
RunWrite(w) ==
    /\ process = "up"
    /\ w \in pending
    /\ pending' = pending \ {w}
    /\ servers' = IF Takes(w) THEN ServersAfter(w) ELSE servers
    /\ dependents' = IF Takes(w) THEN DependentsAfter(w) ELSE dependents
    /\ inserted' = IF Takes(w) /\ w.kind = "insert" THEN inserted \cup {w} ELSE inserted
    /\ UNCHANGED reconciled
    /\ process' = IF Takes(w) THEN "up" ELSE "rejected"
    /\ lastOp' = [op |-> "runWrite", write |-> w, taken |-> Takes(w)]
    /\ UNCHANGED <<backfill, storage, tasks, nextTaskId, messages, budget, cronJobs, running, syncs, nextSync,
                   ticks, stable, history, revision, guilds, serverSyncs, calm, moderation>>

\* no call of syncServers has returned since the guilds last changed
NoCall == [id |-> -1]

\* the call v returned, having found the rows stored: it is the call that
\* returned last with the guilds as they were when it was called
Returned(v, stored) ==
    IF v.steady
    THEN [id |-> v.id, serversIds |-> v.serversIds, stored |-> stored, alone |-> v.clean]
    ELSE reconciled

\* the calls in flight when a guild joins, leaves or is renamed
Disturbed(st) == {[v EXCEPT !.steady = FALSE] : v \in st}

\* the number of the next call of syncServers by a timer or a guild event
NextServerSync == MaxServerSyncs - budget.serverSyncs + 1

\* a call of syncServers: serversIds is read, the find of the stored rows issued
CallSyncServers(id, cache, st) ==
    /\ serverSyncs' =
            {[v EXCEPT !.clean = FALSE, !.second = FALSE] : v \in st} \cup
            {[id |-> id, pc |-> "find",
              serversIds |-> LiveIds(cache), stored |-> {}, todo |-> <<>>, write |-> {},
              second |-> (calm /\ serverSyncs = {} /\ cache = guilds),
              clean |-> (serverSyncs = {} /\ pending = {}), steady |-> TRUE]}
    /\ calm' = FALSE

\* setInterval(() => syncServers(), 1000 * 60 * 60), and the call of 'ready'
TimerSyncServers ==
    /\ process = "up"
    /\ UNCHANGED process
    /\ budget.serverSyncs > 0
    /\ CallSyncServers(NextServerSync, guilds, serverSyncs)
    /\ UNCHANGED <<reconciled, inserted>>
    /\ budget' = [budget EXCEPT !.serverSyncs = @ - 1]
    /\ lastOp' = [op |-> "callSyncServers"]
    /\ UNCHANGED <<backfill, storage, tasks, nextTaskId, messages, cronJobs, running, syncs, nextSync, ticks,
                   stable, history, revision, guilds, servers, dependents, pending, moderation>>

\* client.on('guildCreate', () => syncServers())
GuildCreate(g) ==
    /\ process = "up"
    /\ UNCHANGED process
    /\ budget.guildEvents > 0
    /\ g \notin LiveIds(guilds)
    /\ guilds' = guilds \cup {[id |-> g, name |-> "a"]}
    /\ budget.serverSyncs > 0
    /\ CallSyncServers(NextServerSync, guilds', Disturbed(serverSyncs))
    /\ reconciled' = NoCall
    /\ UNCHANGED inserted
    /\ budget' = [budget EXCEPT !.serverSyncs = @ - 1, !.guildEvents = @ - 1]
    /\ lastOp' = [op |-> "guildCreate"]
    /\ UNCHANGED <<backfill, storage, tasks, nextTaskId, messages, cronJobs, running, syncs, nextSync, ticks,
                   stable, history, revision, servers, dependents, pending, moderation>>

\* client.on('guildDelete', () => syncServers())
GuildDelete(g) ==
    /\ process = "up"
    /\ UNCHANGED process
    /\ budget.guildEvents > 0
    /\ g \in LiveIds(guilds)
    /\ guilds' = {x \in guilds : x.id # g}
    /\ budget.serverSyncs > 0
    /\ CallSyncServers(NextServerSync, guilds', Disturbed(serverSyncs))
    /\ reconciled' = NoCall
    /\ UNCHANGED inserted
    /\ budget' = [budget EXCEPT !.serverSyncs = @ - 1, !.guildEvents = @ - 1]
    /\ lastOp' = [op |-> "guildDelete"]
    /\ UNCHANGED <<backfill, storage, tasks, nextTaskId, messages, cronJobs, running, syncs, nextSync, ticks,
                   stable, history, revision, servers, dependents, pending, moderation>>

\* a guild is renamed: the cache follows, no handler is registered
GuildRename(g) ==
    /\ process = "up"
    /\ UNCHANGED process
    /\ budget.guildEvents > 0
    /\ g \in guilds
    /\ guilds' = (guilds \ {g}) \cup {[g EXCEPT !.name = IF g.name = "a" THEN "b" ELSE "a"]}
    /\ serverSyncs' = {[v EXCEPT !.clean = FALSE, !.second = FALSE, !.steady = FALSE] :
                            v \in serverSyncs}
    /\ calm' = FALSE
    /\ reconciled' = NoCall
    /\ UNCHANGED inserted
    /\ budget' = [budget EXCEPT !.guildEvents = @ - 1]
    /\ lastOp' = [op |-> "guildRename"]
    /\ UNCHANGED <<backfill, storage, tasks, nextTaskId, messages, cronJobs, running, syncs, nextSync, ticks,
                   stable, history, revision, servers, dependents, pending, moderation>>

\* no Keyword, WhitelistedStaffRole, Server or emoji row
NoRows ==
    [keywords |-> {}, whitelistedRoles |-> {}, servers |-> {},
     whitelistedEmojis |-> {}, blacklistedEmojis |-> {}]

\* the text channels of client.channels.cache
TextChannels == ChannelIds

\* no fetch in flight, and the fetches of no call are followed
NoBackfill == [left |-> 0, fetches |-> {}]

\* client.channels.cache.forEach: a fetch of the last 100 messages is issued
\* for every text channel, and none is awaited
Backfill(v) ==
    IF backfill.left > 0
    THEN [left |-> backfill.left - 1,
          fetches |-> backfill.fetches \cup {[by |-> v.id, channel |-> c] : c \in TextChannels}]
    ELSE backfill

\* what a step of syncServers did: the writes it issued, and whether the
\* invocation returned there
ServersOp(v, issued, returned) ==
    [op |-> "syncServers", id |-> v.id, second |-> v.second, issued |-> issued,
     returned |-> returned]

\* syncServers without the call of syncCronJobs
ServersCallNothing == UNCHANGED <<syncs, nextSync, budget>>

\* syncCronJobs() as syncServers calls it
ServersCallSyncCronJobs ==
    /\ syncs' = Overlapped(syncs) \cup {CallSyncCronJobs(syncs)}
    /\ nextSync' = nextSync + 1
    /\ UNCHANGED budget

\* the find resolved, deleting revision: every write is issued and none
\* awaited; syncCronJobs does not exist yet
ServersFoundDeleting(v) ==
    /\ process = "up"
    /\ getPostgres
    /\ UNCHANGED process
    /\ revision = "deleting"
    /\ v.pc = "find"
    /\ LET issued == StaleWrites(v, servers) \cup
                     {InsertWrite(v, id) : id \in newlyCreatedServerIds(v.serversIds, servers)}
       IN  /\ pending' = pending \cup issued
           /\ lastOp' = ServersOp(v, issued, TRUE)
    /\ serverSyncs' = serverSyncs \ {v}
    /\ calm' = v.clean
    /\ reconciled' = Returned(v, servers)
    /\ backfill' = Backfill(v)
    /\ UNCHANGED inserted
    /\ UNCHANGED <<storage, tasks, nextTaskId, messages, budget, cronJobs, running, syncs, nextSync,
                   ticks, stable, history, revision, guilds, servers, dependents, moderation>>

\* the find resolved, unawaited revision: the inserts are issued, then
\* syncCronJobs is called
ServersFoundUnawaited(v) ==
    /\ process = "up"
    /\ getPostgres
    /\ UNCHANGED process
    /\ revision = "unawaited"
    /\ v.pc = "find"
    /\ LET issued == {InsertWrite(v, id) : id \in newlyCreatedServerIds(v.serversIds, servers)}
       IN  /\ pending' = pending \cup issued
           /\ lastOp' = ServersOp(v, issued, TRUE)
    /\ ServersCallSyncCronJobs
    /\ serverSyncs' = serverSyncs \ {v}
    /\ calm' = v.clean
    /\ reconciled' = Returned(v, servers)
    /\ backfill' = Backfill(v)
    /\ UNCHANGED inserted
    /\ UNCHANGED <<storage, tasks, nextTaskId, messages, cronJobs, running, ticks, stable, history,
                   revision, guilds, servers, dependents, moderation>>

\* the find resolved, awaited revision, nothing to insert: syncCronJobs is called
ServersFoundNothingNew(v) ==
    /\ process = "up"
    /\ getPostgres
    /\ UNCHANGED process
    /\ revision = "awaited"
    /\ v.pc = "find"
    /\ newlyCreatedServerIds(v.serversIds, servers) = {}
    /\ lastOp' = ServersOp(v, {}, TRUE)
    /\ ServersCallSyncCronJobs
    /\ serverSyncs' = serverSyncs \ {v}
    /\ calm' = v.clean
    /\ reconciled' = Returned(v, servers)
    /\ backfill' = Backfill(v)
    /\ UNCHANGED inserted
    /\ UNCHANGED <<storage, tasks, nextTaskId, messages, cronJobs, running, ticks, stable, history,
                   revision, guilds, servers, dependents, pending, moderation>>

\* the find resolved, awaited revision: the first insert is issued and awaited
ServersFoundAwaited(v) ==
    /\ process = "up"
    /\ getPostgres
    /\ UNCHANGED process
    /\ revision = "awaited"
    /\ v.pc = "find"
    /\ newlyCreatedServerIds(v.serversIds, servers) # {}
    /\ LET todo == InOrder(newlyCreatedServerIds(v.serversIds, servers))
       IN  /\ serverSyncs' = (serverSyncs \ {v}) \cup
                    {[v EXCEPT !.pc = "insert", !.stored = servers, !.todo = Tail(todo),
                               !.write = InsertWrite(v, Head(todo))]}
           /\ lastOp' = ServersOp(v, {InsertWrite(v, Head(todo))}, FALSE)
    /\ UNCHANGED <<backfill, storage, tasks, nextTaskId, messages, budget, cronJobs, running, syncs, nextSync,
                   ticks, stable, history, revision, guilds, servers, dependents, pending,
                   calm, reconciled, inserted, moderation>>

\* the awaited insert resolved: the next one is issued, or syncCronJobs called
ServersInserted(v) ==
    /\ process = "up"
    /\ UNCHANGED process
    /\ v.pc = "insert"
    /\ Takes(v.write)
    /\ servers' = ServersAfter(v.write)
    /\ inserted' = inserted \cup {v.write}
    /\ IF v.todo # <<>>
       THEN /\ serverSyncs' = (serverSyncs \ {v}) \cup
                    {[v EXCEPT !.todo = Tail(v.todo), !.write = InsertWrite(v, Head(v.todo))]}
            /\ lastOp' = ServersOp(v, {InsertWrite(v, Head(v.todo))}, FALSE)
            /\ UNCHANGED <<budget, syncs, nextSync, calm, reconciled, backfill>>
       ELSE /\ serverSyncs' = serverSyncs \ {v}
            /\ reconciled' = Returned(v, v.stored)
            /\ lastOp' = ServersOp(v, {}, TRUE)
            /\ ServersCallSyncCronJobs
            /\ calm' = v.clean
            /\ backfill' = Backfill(v)
    /\ UNCHANGED <<storage, tasks, nextTaskId, messages, cronJobs, running, ticks, stable, history,
                   revision, guilds, dependents, pending, moderation>>

\* the awaited insert rejected (the store refused it, or failed): the await
\* throws, syncServers ends there and syncCronJobs is not called
ServersInsertRejected(v) ==
    /\ process = "up"
    /\ process' = "rejected"
    /\ v.pc = "insert"
    /\ serverSyncs' = serverSyncs \ {v}
    /\ lastOp' = [op |-> "syncServersThrew", id |-> v.id, at |-> "insert"]
    /\ UNCHANGED <<backfill, storage, tasks, nextTaskId, messages, budget, cronJobs, running, syncs, nextSync,
                   ticks, stable, history, revision, guilds, servers, dependents, pending,
                   calm, reconciled, inserted, moderation>>

\* the find of the stored rows rejected: syncServers ends there
ServersFindRejected(v) ==
    /\ process = "up"
    /\ getPostgres
    /\ process' = "rejected"
    /\ v.pc = "find"
    /\ serverSyncs' = serverSyncs \ {v}
    /\ lastOp' = [op |-> "syncServersThrew", id |-> v.id, at |-> "find"]
    /\ UNCHANGED <<backfill, storage, tasks, nextTaskId, messages, budget, cronJobs, running, syncs, nextSync,
                   ticks, stable, history, revision, guilds, servers, dependents, pending,
                   calm, reconciled, inserted, moderation>>

(***************************************************************************)
(* A rejection nobody handles.  No call of syncServers, syncCronJobs,      *)
(* onTick, channel.send or an unawaited write has a catch, and the process *)
(* registers no 'unhandledRejection' handler: what the runtime does then   *)
(* is its --unhandled-rejections mode, which is to end the process by      *)
(* default and to print a warning under "warn".                            *)
(***************************************************************************)
UnhandledRejection(exits) ==
    /\ process = "rejected"
    /\ IF exits
       THEN /\ process' = "exited"
            /\ cronJobs' = <<>>
            /\ running' = {}
            /\ syncs' = {}
            /\ ticks' = {}
            /\ serverSyncs' = {}
            /\ pending' = {}
            /\ calm' = FALSE
            /\ reconciled' = NoCall
            /\ backfill' = [backfill EXCEPT !.fetches = {}]
       ELSE /\ process' = "up"
            /\ UNCHANGED <<cronJobs, running, syncs, ticks, serverSyncs, pending, calm,
                           reconciled, backfill>>
    /\ lastOp' = [op |-> "unhandledRejection", failed |-> lastOp, exits |-> exits]
    /\ UNCHANGED <<storage, tasks, nextTaskId, messages, budget, nextSync, stable, history,
                   revision, guilds, servers, dependents, inserted, moderation>>

(***************************************************************************)
(* The process                                                             *)
(***************************************************************************)
\* the state at process start, but for the table and the bounds
Start ==
    /\ nextTaskId = Cardinality(tasks) + 1
    /\ messages = InitMessages
    /\ cronJobs = <<>>
    /\ running = {}
    /\ syncs = {}
    /\ nextSync = 1
    /\ ticks = {}
    /\ stable = {}
    /\ history = {}
    /\ pending = {}
    /\ serverSyncs = {}
    /\ calm = FALSE
    /\ process = "up"
    /\ reconciled = NoCall
    /\ inserted = {}
    /\ lastOp = [op |-> "start"]

SyncSteps ==
    \/ \E s \in syncs : SyncWake(s)
    \/ \E s \in syncs : SyncFindRun(s)
    \/ \E s \in syncs : SyncFindReject(s)
    \/ \E s \in syncs : SyncSchedule(s)
    \/ \E exits \in BOOLEAN : UnhandledRejection(exits)

SyncNext ==
    \/ SyncSteps
    \/ TimerSyncCronJobs
    \/ \E m \in MessageIds, sch \in Schedules : InsertTask(m, sch)
    \/ \E t \in tasks, sch \in Schedules : UpdateTask(t, sch)
    \/ \E t \in tasks : DeleteTask(t)
    \/ \E c \in CronTimes : Instant(c)

TickNext ==
    \/ \E r \in messages, e \in Edits : EditMessage(r, e)
    \/ \E r \in messages : DeleteMessage(r)
    \/ \E k \in ticks : TickFindOne(k)
    \/ \E k \in ticks : TickFindOneNull(k)
    \/ \E k \in ticks, delivered \in BOOLEAN : TickSend(k, delivered)
    \/ \E k \in ticks : TickFetchReject(k)

\* the reconciliation of the job list; the bodies of onTick are not followed
Init ==
    /\ tasks \in InitTables
    /\ budget = [syncs |-> MaxSyncs, writes |-> MaxWrites, ticks |-> 0,
                 serverSyncs |-> 0, guildEvents |-> 0]
    /\ revision = "awaited"
    /\ guilds = {}
    /\ servers = {}
    /\ dependents = {}
    /\ storage = "initialized"
    /\ backfill = NoBackfill
    /\ moderation = NoRows
    /\ Start

Next == SyncNext

Spec == Init /\ [][Next]_vars

\* Spec with the scheduling of the event loop: a timer that is due fires, a
\* callback whose await has settled runs, and the runtime deals with a
\* rejection nobody handles
SpecLive ==
    /\ Spec
    /\ WF_vars(TimerSyncCronJobs)
    /\ WF_vars(SyncSteps)

\* the whole process, from a table of well-formed tasks
InitFire ==
    /\ tasks \in {t \in InitTables : Cardinality(t) = 1 /\ \A x \in t : Compiles(x)}
    /\ budget = [syncs |-> MaxFireSyncs, writes |-> MaxFireWrites, ticks |-> MaxTicks,
                 serverSyncs |-> 0, guildEvents |-> 0]
    /\ revision = "awaited"
    /\ guilds = {}
    /\ servers = {}
    /\ dependents = {}
    /\ storage = "initialized"
    /\ backfill = NoBackfill
    /\ moderation = NoRows
    /\ Start

NextFire == SyncNext \/ TickNext

SpecFire == InitFire /\ [][NextFire]_vars

\* the rows of Server, Keyword and WhitelistedEmoji the process can find at start
InitServers ==
    {rows \in SUBSET {[serverId |-> i, name |-> "a"] : i \in GuildIds} : TRUE}

DependentsOf(rows) ==
    {[table |-> t, serverId |-> r.serverId] : t \in {"Keyword", "WhitelistedEmoji"}, r \in rows}

ServersNext ==
    \/ TimerSyncServers
    \/ \E g \in GuildIds : GuildCreate(g)
    \/ \E g \in GuildIds : GuildDelete(g)
    \/ \E g \in guilds : GuildRename(g)
    \/ \E v \in serverSyncs : ServersFoundDeleting(v)
    \/ \E v \in serverSyncs : ServersFoundUnawaited(v)
    \/ \E v \in serverSyncs : ServersFoundNothingNew(v)
    \/ \E v \in serverSyncs : ServersFoundAwaited(v)
    \/ \E v \in serverSyncs : ServersInserted(v)
    \/ \E v \in serverSyncs : ServersInsertRejected(v)
    \/ \E v \in serverSyncs : ServersFindRejected(v)
    \/ \E w \in pending : RunWrite(w)

\* the reconciliation of the Server rows, in each revision, with the
\* syncCronJobs invocations it starts
InitGuilds ==
    /\ tasks \in {t \in InitTables : Cardinality(t) = 1}
    /\ budget = [syncs |-> 0, writes |-> 0, ticks |-> 0,
                 serverSyncs |-> MaxServerSyncs, guildEvents |-> MaxGuildEvents]
    /\ revision \in Revisions
    /\ guilds \in SUBSET {[id |-> i, name |-> "a"] : i \in GuildIds}
    /\ servers \in InitServers
    /\ dependents \in {{}, DependentsOf(servers)}
    /\ storage = "initialized"
    /\ backfill = NoBackfill
    /\ moderation = NoRows
    /\ Start

NextServers == ServersNext \/ SyncSteps

SpecServers == InitGuilds /\ [][NextServers]_vars

(***************************************************************************)
(* A remove whose effect reaches the readers of the table after the        *)
(* listener has run: afterRemove calls syncCronJobs at once, and the       *)
(* invocation sleeps because the "db has to be updated".                   *)
(***************************************************************************)
\* the remove of a task is issued and afterRemove calls syncCronJobs(); the
\* row is still what a find returns
RemoveTask(t) ==
    /\ process = "up"
    /\ budget.writes > 0
    /\ budget.syncs > 0
    /\ t \in tasks
    /\ \A w \in pending : w.row # t
    /\ pending' = pending \cup
            {[by |-> nextSync, table |-> "RecurringMessageTask", row |-> t,
              visible |-> FALSE, late |-> {}, asOf |-> 0]}
    /\ syncs' = Overlapped(syncs) \cup {CallSyncCronJobs(syncs)}
    /\ nextSync' = nextSync + 1
    /\ budget' = [budget EXCEPT !.syncs = @ - 1, !.writes = @ - 1]
    /\ lastOp' = [op |-> "removeTask", id |-> t.id]
    /\ UNCHANGED <<tasks, nextTaskId, messages, cronJobs, running, ticks, stable, history,
                   revision, guilds, servers, dependents, serverSyncs, calm, process,
                   reconciled, inserted, storage, backfill, moderation>>

\* the invocations called since the remove w that are past their sleep
PastSleep(w) ==
    {k \in w.by..(nextSync - 1) : \A s \in syncs : s.id = k => s.pc # "sleep"}

\* the remove reaches the readers: from now on a find does not return the row
Propagated(w) ==
    /\ ~w.visible
    /\ tasks' = tasks \ {w.row}
    /\ stable' = stable \ {w.row.id}
    /\ syncs' = TableWritten(syncs)
    /\ pending' = (pending \ {w}) \cup
            {[w EXCEPT !.visible = TRUE, !.late = PastSleep(w), !.asOf = nextSync]}
    /\ lastOp' = [op |-> "propagated", id |-> w.row.id]
    /\ UNCHANGED <<nextTaskId, messages, budget, cronJobs, running, nextSync, ticks, history,
                   revision, guilds, servers, dependents, serverSyncs, calm, process,
                   reconciled, inserted, storage, backfill, moderation>>

InitSettle ==
    /\ tasks \in {t \in InitTables : t # {}}
    /\ budget = [syncs |-> MaxSyncs, writes |-> MaxWrites, ticks |-> 0,
                 serverSyncs |-> 0, guildEvents |-> 0]
    /\ revision = "awaited"
    /\ guilds = {}
    /\ servers = {}
    /\ dependents = {}
    /\ storage = "initialized"
    /\ backfill = NoBackfill
    /\ moderation = NoRows
    /\ Start

NextSettle ==
    \/ SyncSteps
    \/ TimerSyncCronJobs
    \/ \E t \in tasks : RemoveTask(t)
    \/ \E w \in pending : Propagated(w)

SpecSettle == InitSettle /\ [][NextSettle]_vars

(***************************************************************************)
(* Start of the process.  The two setInterval timers are set when the      *)
(* module is loaded; the 'ready' handler initializes the DataSource when   *)
(* DB_NAME is set and calls syncServers when that is done.                 *)
(***************************************************************************)
\* client.on('ready'): initializeDatabase() is called if DB_NAME is set
Ready(dbName) ==
    /\ process = "up"
    /\ storage = "closed"
    /\ storage' = IF dbName THEN "initializing" ELSE "absent"
    /\ lastOp' = [op |-> "ready", dbName |-> dbName]
    /\ UNCHANGED <<tasks, nextTaskId, messages, budget, cronJobs, running, syncs, nextSync,
                   ticks, stable, history, revision, guilds, servers, dependents, pending,
                   serverSyncs, calm, process, reconciled, inserted, backfill, moderation>>

\* initializeDatabase() resolved: .then(() => syncServers())
InitializeDone ==
    /\ process = "up"
    /\ storage = "initializing"
    /\ storage' = "initialized"
    /\ CallSyncServers(0, guilds, serverSyncs)
    /\ lastOp' = [op |-> "initialized"]
    /\ UNCHANGED <<tasks, nextTaskId, messages, budget, cronJobs, running, syncs, nextSync,
                   ticks, stable, history, revision, guilds, servers, dependents, pending,
                   process, reconciled, inserted, backfill, moderation>>

\* initializeDatabase() rejected: the then is not run, and nobody catches
InitializeRejected ==
    /\ process = "up"
    /\ storage = "initializing"
    /\ storage' = "failed"
    /\ process' = "rejected"
    /\ lastOp' = [op |-> "initializeFailed"]
    /\ UNCHANGED <<tasks, nextTaskId, messages, budget, cronJobs, running, syncs, nextSync,
                   ticks, stable, history, revision, guilds, servers, dependents, pending,
                   serverSyncs, calm, reconciled, inserted, backfill, moderation>>

StartupNext ==
    \/ \E dbName \in BOOLEAN : Ready(dbName)
    \/ InitializeDone
    \/ InitializeRejected

\* the process from the load of the module, before 'ready'
InitStartup ==
    /\ tasks \in {t \in InitTables : Cardinality(t) = 1}
    /\ budget = [syncs |-> 1, writes |-> 0, ticks |-> 0,
                 serverSyncs |-> 1, guildEvents |-> MaxGuildEvents]
    /\ revision = "awaited"
    /\ guilds \in SUBSET {[id |-> i, name |-> "a"] : i \in GuildIds}
    /\ servers \in InitServers
    /\ dependents = {}
    /\ storage = "closed"
    /\ backfill = NoBackfill
    /\ moderation = NoRows
    /\ Start

\* the steps of the current revision: its inserts are awaited
NextStartup ==
    \/ StartupNext
    \/ TimerSyncServers
    \/ \E g \in GuildIds : GuildCreate(g)
    \/ \E g \in GuildIds : GuildDelete(g)
    \/ \E g \in guilds : GuildRename(g)
    \/ \E v \in serverSyncs : ServersFoundNothingNew(v)
    \/ \E v \in serverSyncs : ServersFoundAwaited(v)
    \/ \E v \in serverSyncs : ServersInserted(v)
    \/ \E v \in serverSyncs : ServersInsertRejected(v)
    \/ \E v \in serverSyncs : ServersFindRejected(v)
    \/ SyncSteps
    \/ TimerSyncCronJobs

SpecStartup == InitStartup /\ [][NextStartup]_vars

(***************************************************************************)
(* The fetches of the last messages of every text channel, which           *)
(* syncServers issues before it returns: channel.messages.fetch(...).then  *)
(* (log), with no catch.                                                   *)
(***************************************************************************)
\* a fetch resolved: the then logs the name of the channel
FetchResolved(f) ==
    /\ process = "up"
    /\ f \in backfill.fetches
    /\ backfill' = [backfill EXCEPT !.fetches = @ \ {f}]
    /\ lastOp' = [op |-> "fetched", by |-> f.by, channel |-> f.channel]
    /\ UNCHANGED <<tasks, nextTaskId, messages, budget, cronJobs, running, syncs, nextSync,
                   ticks, stable, history, revision, guilds, servers, dependents, pending,
                   serverSyncs, calm, process, reconciled, inserted, storage, moderation>>

\* a fetch rejected (missing access, a channel deleted meanwhile): the promise
\* the then returned rejects and nobody handles it
FetchRejected(f) ==
    /\ process = "up"
    /\ f \in backfill.fetches
    /\ backfill' = [backfill EXCEPT !.fetches = @ \ {f}]
    /\ process' = "rejected"
    /\ lastOp' = [op |-> "fetchFailed", by |-> f.by, channel |-> f.channel]
    /\ UNCHANGED <<tasks, nextTaskId, messages, budget, cronJobs, running, syncs, nextSync,
                   ticks, stable, history, revision, guilds, servers, dependents, pending,
                   serverSyncs, calm, reconciled, inserted, storage, moderation>>

\* syncServers with the fetches of its first call followed
InitBackfill ==
    /\ tasks \in {t \in InitTables : Cardinality(t) = 1}
    /\ budget = [syncs |-> 0, writes |-> 0, ticks |-> 0,
                 serverSyncs |-> 1, guildEvents |-> MaxGuildEvents]
    /\ revision \in Revisions
    /\ guilds \in SUBSET {[id |-> i, name |-> "a"] : i \in GuildIds}
    /\ servers \in InitServers
    /\ dependents = {}
    /\ storage = "initialized"
    /\ backfill = [left |-> MaxBackfills, fetches |-> {}]
    /\ moderation = NoRows
    /\ Start

NextBackfill ==
    \/ ServersNext
    \/ SyncSteps
    \/ \E f \in backfill.fetches : FetchResolved(f)
    \/ \E f \in backfill.fetches : FetchRejected(f)

SpecBackfill == InitBackfill /\ [][NextBackfill]_vars

(***************************************************************************)
(* client.on('messageCreate'): the keyword restriction of a channel, then  *)
(* the dispatch to a message command.                                      *)
(***************************************************************************)
GuildNames == {"g1", "g2"}

RoleIds == {"r1", "r2"}

\* texts of Keyword rows
KeywordTexts == {<<"a">>, <<"a", "b">>}

KeywordKinds == {"startswith", "contains"}

KeywordRows ==
    {[channelId |-> c, kind |-> k, text |-> t] :
        c \in ChannelIds, k \in KeywordKinds, t \in KeywordTexts}

WhitelistedStaffRoleRows == {[roleId |-> r, serverId |-> "g1"] : r \in RoleIds}

\* contents of the messages received
Contents == {<<"a">>, <<"b">>, <<"a", "b">>, <<"!", "p">>}

\* the messages received: guildId is "" for a direct message
Messages ==
    [bot : BOOLEAN, guildId : {"", "g1"}, channelId : ChannelIds, content : Contents,
     roles : {{}, {"r1"}}]

\* the names messageCommands holds
MessageCommands == {<<"p">>}

\* process.env.COMMAND_PREFIX, <<>> when it is not set
CommandPrefixes == {<<>>, <<"!">>}

\* String.prototype.startsWith
startsWith(str, searchString) == MatchAt(str, searchString, 1)

\* find({where: {channelId}}) without the kind
findKeywordsOfChannel(channelId) == {k \in moderation.keywords : k.channelId = channelId}

\* getRepository(Keyword).find({where: {channelId, kind: 'startswith'}})
findKeywords(channelId) ==
    {k \in moderation.keywords : k.channelId = channelId /\ k.kind = "startswith"}

\* roles.cache.some(role => whitelistedRoles.map(r => r.roleId).includes(role.id))
hasRole(message) ==
    \E role \in message.roles : role \in {r.roleId : r \in moderation.whitelistedRoles}

\* keywords.length > 0 && keywords.every(key => !message.content.startsWith(key.text))
noneMatch(message, keywords) ==
    /\ keywords # {}
    /\ \A key \in keywords : ~startsWith(message.content, key.text)

\* message.content.slice(prefix.length).split(/ +/).shift()
commandName(message, prefix) ==
    LET rest == SubSeq(message.content, Len(prefix) + 1, Len(message.content))
        blanks == {i \in 1..Len(rest) : rest[i] = " "}
    IN  IF blanks = {} THEN rest
        ELSE SubSeq(rest, 1, (CHOOSE i \in blanks : \A j \in blanks : i <= j) - 1)

\* the handler up to the end: delete and notice, or dispatch, or nothing.
\* sent tells whether the direct message to the author went through
MessageCreate(message, prefix, sent) ==
    /\ process = "up"
    /\ getPostgres
    /\ LET ignored == message.bot \/ message.guildId = ""
           keywords == findKeywords(message.channelId)
           deleted  == ~ignored /\ ~hasRole(message) /\ noneMatch(message, keywords)
           run      == /\ ~ignored
                       /\ ~deleted
                       /\ prefix # <<>>
                       /\ commandName(message, prefix) \in MessageCommands
       IN  /\ lastOp' = [op |-> "messageCreate", message |-> message, deleted |-> deleted,
                         dispatched |-> run, sent |-> (deleted /\ sent)]
           /\ process' = IF deleted /\ ~sent THEN "rejected" ELSE "up"
    /\ UNCHANGED <<tasks, nextTaskId, messages, budget, cronJobs, running, syncs, nextSync,
                   ticks, stable, history, revision, guilds, servers, dependents, pending,
                   serverSyncs, calm, reconciled, inserted, storage, backfill, moderation>>

\* one of the two finds of the handler rejected: the handler ends there
MessageFindRejected(message) ==
    /\ process = "up"
    /\ getPostgres
    /\ ~message.bot
    /\ message.guildId # ""
    /\ process' = "rejected"
    /\ lastOp' = [op |-> "messageFailed", message |-> message]
    /\ UNCHANGED <<tasks, nextTaskId, messages, budget, cronJobs, running, syncs, nextSync,
                   ticks, stable, history, revision, guilds, servers, dependents, pending,
                   serverSyncs, calm, reconciled, inserted, storage, backfill, moderation>>

MessagesNext ==
    \/ \E message \in Messages, prefix \in CommandPrefixes, sent \in BOOLEAN :
            MessageCreate(message, prefix, sent)
    \/ \E message \in Messages : MessageFindRejected(message)

\* the handler over the tables of keywords and staff roles it can find
InitModerated ==
    /\ tasks = {}
    /\ budget = [syncs |-> 0, writes |-> 0, ticks |-> 0, serverSyncs |-> 0, guildEvents |-> 0]
    /\ revision = "awaited"
    /\ guilds = {}
    /\ servers = {}
    /\ dependents = {}
    /\ storage = "initialized"
    /\ backfill = NoBackfill
    /\ moderation \in
            {[NoRows EXCEPT !.keywords = k, !.whitelistedRoles = w] :
                k \in {x \in SUBSET KeywordRows : Cardinality(x) <= MaxKeywords},
                w \in {x \in SUBSET WhitelistedStaffRoleRows : Cardinality(x) <= MaxRoles}}
    /\ Start

NextMessages ==
    \/ MessagesNext
    \/ \E exits \in BOOLEAN : UnhandledRejection(exits)

SpecMessages == InitModerated /\ [][NextMessages]_vars

(***************************************************************************)
(* client.on('messageReactionAdd'): the emoji restriction of a server.     *)
(***************************************************************************)
\* reaction.emoji: id is <<>> for a unicode emoji, whose name is the emoji
Emojis == {[id |-> <<>>, name |-> <<"u">>], [id |-> <<"7">>, name |-> <<"x">>]}

\* reaction.emoji.id ? `<:${name}:${id}>` : name
emojiString(emoji) ==
    IF emoji.id # <<>>
    THEN <<"<", ":">> \o emoji.name \o <<":">> \o emoji.id \o <<">">>
    ELSE emoji.name

\* values of the column emojiUnicodeOrId
EmojiValues == {<<"u">>, <<"x">>, <<"<", ":", "x", ":", "7", ">">>}

EmojiRows == {[emojiUnicodeOrId |-> e, serverId |-> g] : e \in EmojiValues, g \in GuildNames}

\* tables of Server rows, as the handler reads them: serverId is unique
ModeTables ==
    {t \in SUBSET [serverId : GuildNames, blacklistModeEnabled : BOOLEAN] :
        \A a, b \in t : a.serverId = b.serverId => a = b}

\* the reactions received: guildId is "" outside a guild
Reactions == [guildId : {""} \cup GuildNames, emoji : Emojis]

\* the rows of every server, whatever the guild of the reaction
ofAnyServer(rows, guildId) == rows

\* raw.filter(e => e.server.serverId === reaction.message.guildId)
ofServer(rows, guildId) == {e \in rows : e.serverId = guildId}

\* findOne({where: {serverId}})?.blacklistModeEnabled
blacklistModeEnabled(guildId) ==
    \E server \in moderation.servers : server.serverId = guildId /\ server.blacklistModeEnabled

\* list.find(e => e.emojiUnicodeOrId === emoji), as a condition
found(list, emoji) == \E e \in list : e.emojiUnicodeOrId = emoji

\* the handler up to the end: the reaction of the user is removed, or kept.
\* removal tells whether reaction.users.remove went through
ReactionAdd(reaction, removal) ==
    /\ process = "up"
    /\ getPostgres
    /\ reaction.guildId # ""
    /\ LET emoji == emojiString(reaction.emoji)
           removed ==
               IF blacklistModeEnabled(reaction.guildId)
               THEN found(ofServer(moderation.blacklistedEmojis, reaction.guildId), emoji)
               ELSE ~found(ofServer(moderation.whitelistedEmojis, reaction.guildId), emoji)
       IN  /\ lastOp' = [op |-> "reactionAdd", reaction |-> reaction, removed |-> removed]
           /\ process' = IF removed /\ ~removal THEN "rejected" ELSE "up"
    /\ UNCHANGED <<tasks, nextTaskId, messages, budget, cronJobs, running, syncs, nextSync,
                   ticks, stable, history, revision, guilds, servers, dependents, pending,
                   serverSyncs, calm, reconciled, inserted, storage, backfill, moderation>>

\* a reaction outside a guild: the handler returns at once
ReactionIgnored(reaction) ==
    /\ process = "up"
    /\ reaction.guildId = ""
    /\ lastOp' = [op |-> "reactionIgnored", reaction |-> reaction]
    /\ UNCHANGED <<tasks, nextTaskId, messages, budget, cronJobs, running, syncs, nextSync,
                   ticks, stable, history, revision, guilds, servers, dependents, pending,
                   serverSyncs, calm, process, reconciled, inserted, storage, backfill,
                   moderation>>

\* the findOne or the find of the handler rejected: the handler ends there
ReactionFindRejected(reaction) ==
    /\ process = "up"
    /\ getPostgres
    /\ reaction.guildId # ""
    /\ process' = "rejected"
    /\ lastOp' = [op |-> "reactionFailed", reaction |-> reaction]
    /\ UNCHANGED <<tasks, nextTaskId, messages, budget, cronJobs, running, syncs, nextSync,
                   ticks, stable, history, revision, guilds, servers, dependents, pending,
                   serverSyncs, calm, reconciled, inserted, storage, backfill, moderation>>

ReactionsNext ==
    \/ \E reaction \in Reactions, removal \in BOOLEAN : ReactionAdd(reaction, removal)
    \/ \E reaction \in Reactions : ReactionIgnored(reaction)
    \/ \E reaction \in Reactions : ReactionFindRejected(reaction)

\* the handler over the Server and emoji rows it can find
InitReactions ==
    /\ tasks = {}
    /\ budget = [syncs |-> 0, writes |-> 0, ticks |-> 0, serverSyncs |-> 0, guildEvents |-> 0]
    /\ revision = "awaited"
    /\ guilds = {}
    /\ servers = {}
    /\ dependents = {}
    /\ storage = "initialized"
    /\ backfill = NoBackfill
    /\ moderation \in
            {[NoRows EXCEPT !.servers = t, !.whitelistedEmojis = w, !.blacklistedEmojis = b] :
                t \in ModeTables,
                w \in {x \in SUBSET EmojiRows : Cardinality(x) <= MaxEmojis},
                b \in {x \in SUBSET EmojiRows : Cardinality(x) <= MaxEmojis}}
    /\ Start

NextReactions ==
    \/ ReactionsNext
    \/ \E exits \in BOOLEAN : UnhandledRejection(exits)

SpecReactions == InitReactions /\ [][NextReactions]_vars

(***************************************************************************)
(* The callbacks of the process side by side: syncCronJobs, the triggers   *)
(* and their onTick, syncServers of the current revision, the guild        *)
(* events, and the message and reaction handlers.                          *)
(***************************************************************************)
\* messages of a member without role in channel c1 of guild g1
FrameMessages ==
    {m \in Messages : ~m.bot /\ m.guildId = "g1" /\ m.channelId = "c1" /\ m.roles = {}
                       /\ m.content \in {<<"a">>, <<"b">>}}

\* reactions in guild g1
FrameReactions == {r \in Reactions : r.guildId = "g1"}

\* channel c1 is restricted to 'a'; g1 is in blacklist mode and blacklists 'u'
FrameRows ==
    [keywords |-> {[channelId |-> "c1", kind |-> "startswith", text |-> <<"a">>]},
     whitelistedRoles |-> {},
     servers |-> {[serverId |-> "g1", blacklistModeEnabled |-> TRUE]},
     whitelistedEmojis |-> {},
     blacklistedEmojis |-> {[emojiUnicodeOrId |-> <<"u">>, serverId |-> "g1"]}]

InitFrame ==
    /\ tasks \in {t \in InitTables : Cardinality(t) = 1 /\ \A x \in t : Compiles(x)}
    /\ budget = [syncs |-> 1, writes |-> 0, ticks |-> MaxTicks,
                 serverSyncs |-> 1, guildEvents |-> MaxGuildEvents]
    /\ revision = "awaited"
    /\ guilds \in {{}, {[id |-> 1, name |-> "a"]}}
    /\ servers = {}
    /\ dependents = {}
    /\ storage = "initialized"
    /\ backfill = NoBackfill
    /\ moderation = FrameRows
    /\ Start

NextFrame ==
    \/ SyncSteps
    \/ TimerSyncCronJobs
    \/ \E c \in CronTimes : Instant(c)
    \/ \E k \in ticks : TickFindOne(k)
    \/ \E k \in ticks, delivered \in BOOLEAN : TickSend(k, delivered)
    \/ \E k \in ticks : TickFetchReject(k)
    \/ TimerSyncServers
    \/ \E g \in GuildIds : GuildCreate(g)
    \/ \E g \in GuildIds : GuildDelete(g)
    \/ \E g \in guilds : GuildRename(g)
    \/ \E v \in serverSyncs : ServersFoundNothingNew(v)
    \/ \E v \in serverSyncs : ServersFoundAwaited(v)
    \/ \E v \in serverSyncs : ServersInserted(v)
    \/ \E v \in serverSyncs : ServersInsertRejected(v)
    \/ \E v \in serverSyncs : ServersFindRejected(v)
    \/ \E message \in FrameMessages, sent \in BOOLEAN : MessageCreate(message, <<>>, sent)
    \/ \E message \in FrameMessages : MessageFindRejected(message)
    \/ \E reaction \in FrameReactions, removal \in BOOLEAN : ReactionAdd(reaction, removal)
    \/ \E reaction \in FrameReactions : ReactionFindRejected(reaction)

SpecFrame == InitFrame /\ [][NextFrame]_vars

(***************************************************************************)
(* The values the form of the administrative interface offers for a task,  *)
(* and the trigger string of each.                                         *)
(***************************************************************************)
\* Array.from({ length: 24 }, ...): the hours offered
HourValues == 24
\* Array.from({ length: 60 }, ...): the minutes offered
MinuteValues == 60

\* i.toString().padStart(2, '0') for a number below 100
toStringPadded(i) == <<Digits[(i \div 10) + 1], Digits[(i % 10) + 1]>>

\* i.toString() for a natural number
RECURSIVE toString(_)
toString(i) ==
    IF i < 10 THEN <<Digits[i + 1]>>
    ELSE toString(i \div 10) \o <<Digits[(i % 10) + 1]>>

\* the values of dayOfWeek offered
DayValues ==
    {<<"*">>, <<"S", "U", "N">>, <<"M", "O", "N">>, <<"T", "U", "E">>, <<"W", "E", "D">>,
     <<"T", "H", "U">>, <<"F", "R", "I">>, <<"S", "A", "T">>}

\* the schedules the form can leave in a row
FormSchedules ==
    {[dayOfWeek |-> d, utcTimeHour |-> toString(h), utcTimeMinute |-> toString(m)] :
        d \in DayValues, h \in 0..(HourValues - 1), m \in 0..(MinuteValues - 1)}

\* the body of the for loop up to cronTabString, for one task
CompileTask(task) ==
    /\ process = "up"
    /\ task \in tasks
    /\ lastOp' = [op |-> "compile", task |-> task,
                  cronTabString |-> cronTabString(ScheduleOf(task)),
                  again |-> (lastOp.op = "compile"),
                  before |-> IF lastOp.op = "compile" THEN lastOp.cronTabString ELSE <<>>]
    /\ UNCHANGED <<tasks, nextTaskId, messages, budget, cronJobs, running, syncs, nextSync,
                   ticks, stable, history, guildVars, process>>

\* one task, of any schedule of the form
InitCompile ==
    /\ tasks \in {{TaskRow(1, 1, sch)} : sch \in FormSchedules}
    /\ budget = [syncs |-> 0, writes |-> 0, ticks |-> 0, serverSyncs |-> 0, guildEvents |-> 0]
    /\ revision = "awaited"
    /\ guilds = {}
    /\ servers = {}
    /\ dependents = {}
    /\ storage = "initialized"
    /\ backfill = NoBackfill
    /\ moderation = NoRows
    /\ Start

NextCompile == \E task \in tasks : CompileTask(task)

SpecCompile == InitCompile /\ [][NextCompile]_vars

(***************************************************************************)
(* Properties                                                              *)
(***************************************************************************)
\* the jobs of the list whose closure holds the row t
JobsFor(t) == {i \in 1..Len(cronJobs) : cronJobs[i].cronJob.task = t}

\* the invocation that just returned ran alone, over an unchanged table
QuietSyncDone ==
    /\ lastOp.op = "syncDone"
    /\ lastOp.solo
    /\ lastOp.unchanged

\* C1: when a syncCronJobs invocation returns, having run with no other
\* invocation in flight and the task table unchanged, the list cronJobs holds
\* exactly one job for each persisted task, every job of the list is running and
\* nothing else is, and no job is for a task that is not persisted.
C1_OneJobPerTask ==
    (QuietSyncDone /\ ~lastOp.threw) =>
        /\ \A t \in tasks : Cardinality(JobsFor(t)) = 1
        /\ Len(cronJobs) = Cardinality(tasks)
        /\ \A i \in 1..Len(cronJobs) : cronJobs[i].cronJob.task.id \in Ids(tasks)
        /\ running = CronJobsOf(cronJobs)

\* a second generation is installed alone after a task was deleted
C1_Witness ==
    /\ QuietSyncDone
    /\ ~lastOp.threw
    /\ lastOp.id > 1
    /\ tasks # {}
    /\ \E i \in 1..(nextTaskId - 1) : i \notin Ids(tasks)

\* C2: once two overlapping invocations have both returned, the list is the
\* generation of the one that returned last: every job of the list was pushed
\* by it, one per task of the rows it read, and nothing else runs.
C2_LastToCompleteWins ==
    (lastOp.op = "syncDone" /\ ~lastOp.solo /\ ~lastOp.threw /\ syncs = {}) =>
        /\ \A i \in 1..Len(cronJobs) : cronJobs[i].cronJob.jid[1] = lastOp.id
        /\ \A t \in lastOp.rows : Cardinality(JobsFor(t)) = 1
        /\ running = CronJobsOf(cronJobs)

\* C3: at every instant at most one running job exists per task, and a
\* scheduled instant fires at most one job per task.
C3_AtMostOneRunningJobPerTask ==
    /\ \A j1, j2 \in running : j1.task.id = j2.task.id => j1 = j2
    /\ lastOp.op = "instant" =>
            \A j1, j2 \in lastOp.fired : j1.task.id = j2.task.id => j1 = j2

\* C4: an instant of the trigger of a task that got a job and was not written
\* since fires a job of that task.
C4_EveryInstantFires ==
    lastOp.op = "instant" =>
        \A t \in tasks :
            (t.id \in stable /\ CronTimeOf(t) = lastOp.cronTime)
                => \E j \in lastOp.fired : j.task.id = t.id

\* C5: when the find of an invocation that ran alone rejects, the list and the
\* running jobs are what they were when the invocation was called.
C5_FailedReadKeepsJobs ==
    (lastOp.op = "syncFailed" /\ lastOp.solo) =>
        /\ JobIds(cronJobs) = lastOp.before.cronJobs
        /\ {j.jid : j \in running} = lastOp.before.running

\* C6: an invocation that ran alone over an unchanged table leaves a running
\* job in the list for every task of its rows that compiles, wherever a task
\* that does not compile stands in the rows.
C6_MalformedTaskOnlyOmitted ==
    QuietSyncDone =>
        \A t \in lastOp.rows :
            Compiles(t) => \E i \in JobsFor(t) : cronJobs[i].cronJob \in running

\* C7: an onTick that finds no RecurringMessage with the captured id sends
\* nothing and ends without an error.
C7_MissingMessageIsNoOp ==
    (lastOp.op = "tickEnd" /\ lastOp.missing) =>
        /\ lastOp.sent = {}
        /\ lastOp.error = "none"

\* C8: what a fire hands to channel.send is the row as stored when the send is
\* made, unless the row was written after the fire: the channel, the text, the
\* embed flag and the colour of every edit made before the fire.
C8_DispatchesStoredContent ==
    (lastOp.op = "tickEnd" /\ lastOp.sent # {} /\ ~lastOp.written) =>
        \E r \in messages :
            /\ r.id = lastOp.job.task.recurringMessageId
            /\ \A d \in lastOp.sent :
                /\ d.text = r.text
                /\ d.channel = r.channelId
                /\ (d.kind = "embed") = r.sendAsEmbed
                /\ r.sendAsEmbed => d.colour = r.embedColor

\* a fire sends a body written after the job was scheduled, with no
\* reconciliation in between
C8_Witness ==
    /\ lastOp.op = "tickEnd"
    /\ lastOp.sent # {}
    /\ ~lastOp.written
    /\ <<"edited", lastOp.job.jid>> \in history
    /\ \A d \in lastOp.sent : d.text > 0 /\ d.kind = "embed"

\* a dispatch of an onTick failed: the fetch rejected, or the send did
DispatchFailed(op) ==
    /\ op.op = "tickEnd"
    /\ \/ op.error = "fetch"
       \/ op.sent # {} /\ ~op.delivered

\* C9: a dispatch failure leaves the list cronJobs and the running jobs as they
\* were: neither the step that fails nor what the runtime does with the
\* failure changes them, so the job fires at its next instant.
C9_FailureKeepsJob ==
    [][(DispatchFailed(lastOp') \/ (process = "rejected" /\ DispatchFailed(lastOp)))
          => (cronJobs' = cronJobs /\ running' = running)]_vars

\* C10: a call of syncServers that follows a completed one, with no call in
\* flight in between and the guilds and their names as they were, issues no
\* insert, no update and no delete of a Server row.
C10_SecondCallWritesNothing ==
    (lastOp.op = "syncServers" /\ lastOp.second)
        => {w \in lastOp.issued : w.table = "Server"} = {}

\* the same, of the revision that awaits its inserts
AwaitedSecondCallWritesNothing ==
    revision = "awaited" => C10_SecondCallWritesNothing

\* a second call that found nothing to write
SecondCallReturned ==
    /\ lastOp.op = "syncServers"
    /\ lastOp.second
    /\ lastOp.returned
    /\ revision = "awaited"
    /\ servers # {}

\* the writes the call that returned last issued have all been run
WritesDone == \A w \in pending : w.by # reconciled.id

C12_StoredEqualsLive ==
    (revision = "deleting" /\ reconciled # NoCall /\ reconciled.alone /\ pending = {}) =>
        /\ StoredIds(servers) = LiveIds(guilds)
        /\ \A d \in dependents : d.serverId \in LiveIds(guilds)

\* C13: every insert, update and remove of a RecurringMessageTask calls
\* syncCronJobs: the step that writes the table starts an invocation, which is
\* at its sleep and has not read the table yet.
C13_WriteCallsSync ==
    [][tasks' # tasks =>
          /\ nextSync' = nextSync + 1
          /\ \E s \in syncs' : s.id = nextSync /\ s.pc = "sleep" /\ s.rows = {}]_vars

\* a task was removed while another invocation was in flight, and the
\* invocation the remove started is at its sleep
C13_Witness ==
    /\ lastOp.op = "deleteTask"
    /\ \E s \in syncs : s.id = nextSync - 1 /\ s.pc = "sleep"
    /\ \E s \in syncs : s.id < nextSync - 1

\* the fields of a trigger string, joined by single blanks
RECURSIVE Joined(_)
Joined(fields) ==
    IF Len(fields) = 1 THEN fields[1]
    ELSE fields[1] \o <<" ">> \o Joined(Tail(fields))

\* C14: for every day, hour and minute of the form the trigger string is the
\* six fields 0, minute, hour, *, *, day, and compiling the task again gives
\* the same string.
C14_CronTabStringOfForm ==
    lastOp.op = "compile" =>
        /\ lastOp.cronTabString =
                Joined(<<<<"0">>, lastOp.task.utcTimeMinute, lastOp.task.utcTimeHour,
                         <<"*">>, <<"*">>, lastOp.task.dayOfWeek>>)
        /\ Len(SplitBlank(lastOp.cronTabString)) = 6
        /\ lastOp.again => lastOp.before = lastOp.cronTabString

\* MON, 9, 0 compiled a second time: '0 0 9 * * MON'
C14_Witness ==
    /\ lastOp.op = "compile"
    /\ lastOp.again
    /\ lastOp.task.dayOfWeek = <<"M", "O", "N">>
    /\ lastOp.task.utcTimeHour = <<"9">>
    /\ lastOp.task.utcTimeMinute = <<"0">>
    /\ lastOp.cronTabString =
            <<"0", " ", "0", " ", "9", " ", "*", " ", "*", " ", "M", "O", "N">>

\* C15: no fire of a stopped job is observed: an instant starts onTick for
\* running jobs only, and an onTick hands a message to channel.send only while
\* its job is running.
C15_NoFireAfterStop ==
    /\ lastOp.op = "instant" => lastOp.fired \subseteq running
    /\ (lastOp.op = "tickEnd" /\ lastOp.sent # {}) => lastOp.job \in running

\* the running jobs are the jobs of the list, one for each persisted task
OnePerTask ==
    /\ running = CronJobsOf(cronJobs)
    /\ Len(cronJobs) = Cardinality(tasks)
    /\ \A t \in tasks : Cardinality(JobsFor(t)) = 1

\* no invocation is in flight and one call of syncCronJobs is still to come:
\* the invocation it starts runs alone, over a table that no longer changes
LastPassAhead == syncs = {} /\ budget.syncs = 1

\* C16: from wherever the earlier passes left the list, the pass of the timer
\* that is still to come, running alone over a table that no longer changes,
\* leads to one running job per persisted task, unless its read fails.
C16_StalenessCorrected ==
    LastPassAhead ~> (OnePerTask \/ lastOp.op = "syncFailed")

\* the same while the process lives and every persisted task compiles
LiveStalenessCorrected ==
    (LastPassAhead /\ \A t \in tasks : Compiles(t)) ~>
        \/ OnePerTask
        \/ lastOp.op = "syncFailed"
        \/ process = "exited"
        \/ \E t \in tasks : ~Compiles(t)

Replacing(s) == s.pc \in {"find", "found"}

\* C18: the replacement an invocation of syncCronJobs makes is indivisible
\* relative to the others: when an invocation stops and clears the list, or
\* installs its jobs, no other invocation is between its own stop and clear
\* and its own install.
C18_ReplacementIndivisible ==
    lastOp.op \in {"wake", "syncDone"} =>
        \A s \in syncs : Replacing(s) => s.id = lastOp.id

\* C19: while an invocation of syncCronJobs that runs alone awaits its find,
\* tasks being persisted, the list is a complete generation: the jobs it held
\* when the invocation was called, or one job for each persisted task.
C19_NoPartialGeneration ==
    \A s \in syncs :
        (Replacing(s) /\ s.solo /\ tasks # {}) =>
            (JobIds(cronJobs) = s.before.cronJobs \/ OnePerTask)

\* the remove w reached the readers while invocation k, called after it, had
\* not ended its sleep
SettledFor(w, k) == w.visible /\ k >= w.by /\ k \notin w.late

\* C20: an invocation of syncCronJobs called after the remove of a task, the
\* remove having reached the readers before the invocation ended its sleep,
\* does not read the row of the task and installs no job for it.
C20_ReadAfterSettleDelay ==
    \A w \in pending :
        /\ \A s \in syncs : (SettledFor(w, s.id) /\ s.pc = "found") => w.row \notin s.rows
        /\ \A i \in 1..Len(cronJobs) :
                SettledFor(w, cronJobs[i].cronJob.jid[1]) => cronJobs[i].cronJob.task # w.row

\* the invocation afterRemove called, the row still readable at the call, has
\* installed the jobs of the other task
C20_Witness ==
    /\ lastOp.op = "syncDone"
    /\ lastOp.rows # {}
    /\ cronJobs # <<>>
    /\ \E w \in pending : SettledFor(w, lastOp.id) /\ w.by = lastOp.id /\ w.asOf > w.by

\* C21: in the current revision, the step in which an invocation of
\* syncServers ends, by returning or because an awaited insert rejected,
\* has called syncCronJobs: the invocation it started is in its sleep.
C21_SyncServersCallsSyncCronJobs ==
    (/\ revision = "awaited"
     /\ \/ lastOp.op = "syncServers" /\ lastOp.returned
        \/ lastOp.op = "syncServersThrew" /\ lastOp.at = "insert") =>
        \E s \in syncs : s.id = nextSync - 1 /\ s.pc = "sleep"

\* C23: a fetch of the messages of a channel that fails is contained: it
\* leaves no rejection for the runtime to handle, and the process does not
\* end on it, so the other fetches and the syncCronJobs invocation of the
\* same call go on.
C23_BackfillFailureContained ==
    /\ lastOp.op = "fetchFailed" => process = "up"
    /\ (lastOp.op = "unhandledRejection" /\ lastOp.failed.op = "fetchFailed") =>
            process # "exited"

\* the minute and the hour field of a trigger string
TimeFields(str) == {SplitBlank(str)[2], SplitBlank(str)[3]}

\* C24 (as stated): the minute and the hour field of the compiled trigger
\* string are written with two digits each.
C24_TwoDigitFields ==
    lastOp.op = "compile" => \A f \in TimeFields(lastOp.cronTabString) : Len(f) = 2

\* C24 (amended): the minute and the hour field of the compiled trigger string
\* are decimal numerals without padding, one digit below 10 and two from 10
\* on, the minute at most 59 and the hour at most 23.
C24_UnpaddedFields ==
    lastOp.op = "compile" =>
        /\ \A f \in TimeFields(lastOp.cronTabString) :
                IsNumber(f) /\ Len(f) = (IF ParseInt(f) < 10 THEN 1 ELSE 2)
        /\ ParseInt(SplitBlank(lastOp.cronTabString)[2]) <= MinuteValues - 1
        /\ ParseInt(SplitBlank(lastOp.cronTabString)[3]) <= HourValues - 1

\* hour 9, minute 30 compiled: the fields are '30' and '9'
C24_Witness ==
    /\ lastOp.op = "compile"
    /\ lastOp.task.utcTimeHour = <<"9">>
    /\ lastOp.task.utcTimeMinute = <<"3", "0">>
    /\ SplitBlank(lastOp.cronTabString)[2] = <<"3", "0">>
    /\ SplitBlank(lastOp.cronTabString)[3] = <<"9">>

\* C25: every job started and not stopped is a job of the list cronJobs, so
\* the stop loop of the next invocation reaches it.
C25_NoJobLeaked == running \subseteq CronJobsOf(cronJobs)

\* two invocations overlapped and both pushed their jobs: the list holds the
\* running jobs of both
C25_Witness ==
    /\ lastOp.op = "syncDone"
    /\ ~lastOp.solo
    /\ running # {}
    /\ \E i, j \in 1..Len(cronJobs) :
            /\ cronJobs[i].cronJob.jid[1] # cronJobs[j].cronJob.jid[1]
            /\ cronJobs[i].cronJob \in running
            /\ cronJobs[j].cronJob \in running

\* the inserts of Server rows issued and not yet run by the store
InsertsIssued ==
    {w \in pending : w.kind = "insert"} \cup
    {v.write : v \in {x \in serverSyncs : x.pc = "insert"}}

\* C26: in the current revision no two inserts are issued for a server id:
\* an insert that is issued and not yet run is the only one for its id, and no
\* row with that id is stored.
C26_OneInsertPerGuild ==
    revision = "awaited" =>
        \A w \in InsertsIssued :
            /\ w.serverId \notin StoredIds(servers)
            /\ \A u \in InsertsIssued : u.serverId = w.serverId => u = w

\* the rows of Keyword that restrict a channel
Restricting(channelId) ==
    {k \in moderation.keywords : k.kind = "startswith" /\ k.channelId = channelId}

\* the content begins with the text
BeginsWith(content, text) ==
    Len(text) <= Len(content) /\ SubSeq(content, 1, Len(text)) = text

\* C27: a guild message of an author that is not a bot, handled to the end, is
\* deleted exactly when its channel has a 'startswith' keyword, its content
\* begins with none of the keywords of the channel, and the author holds no
\* whitelisted staff role; a deleted message is not dispatched to a command.
C27_KeywordRestriction ==
    (lastOp.op = "messageCreate" /\ ~lastOp.message.bot /\ lastOp.message.guildId # "") =>
        /\ lastOp.deleted <=>
                /\ Restricting(lastOp.message.channelId) # {}
                /\ \A k \in Restricting(lastOp.message.channelId) :
                        ~BeginsWith(lastOp.message.content, k.text)
                /\ \A r \in moderation.whitelistedRoles : r.roleId \notin lastOp.message.roles
        /\ lastOp.deleted => ~lastOp.dispatched

\* '!p' in a channel restricted to 'a', from an author without role, is
\* deleted and not run, although p is a command
C27_Witness ==
    /\ lastOp.op = "messageCreate"
    /\ lastOp.deleted
    /\ ~lastOp.dispatched
    /\ lastOp.message.content = <<"!", "p">>
    /\ lastOp.message.roles # {}
    /\ moderation.whitelistedRoles # {}
    /\ \E k \in moderation.keywords : k.kind = "contains" /\ k.channelId = lastOp.message.channelId

\* the emoji of the reaction handled last is in a list of rows, for the
\* server of the reaction
Listed(rows) ==
    \E e \in rows :
        /\ e.serverId = lastOp.reaction.guildId
        /\ e.emojiUnicodeOrId = emojiString(lastOp.reaction.emoji)

\* C28: a reaction in a guild, handled to the end, is removed exactly when
\* the emoji is in the blacklist of the server if the Server row of the guild
\* has blacklist mode enabled, and exactly when it is not in the whitelist of
\* the server if the mode is off or the row is absent; rows of other servers
\* do not count.
C28_ReactionRestriction ==
    lastOp.op = "reactionAdd" =>
        LET rows == {r \in moderation.servers : r.serverId = lastOp.reaction.guildId}
        IN  IF rows # {} /\ \A r \in rows : r.blacklistModeEnabled
            THEN lastOp.removed <=> Listed(moderation.blacklistedEmojis)
            ELSE lastOp.removed <=> ~Listed(moderation.whitelistedEmojis)

\* in blacklist mode, a custom emoji that another server blacklists and this
\* server does not whitelist is kept
C28_Witness ==
    /\ lastOp.op = "reactionAdd"
    /\ ~lastOp.removed
    /\ lastOp.reaction.emoji.id # <<>>
    /\ blacklistModeEnabled(lastOp.reaction.guildId)
    /\ \E e \in moderation.blacklistedEmojis :
            /\ e.serverId # lastOp.reaction.guildId
            /\ e.emojiUnicodeOrId = emojiString(lastOp.reaction.emoji)
    /\ ~Listed(moderation.whitelistedEmojis)

\* the steps of the callbacks themselves: but for the steps of syncCronJobs
\* and the end of the process, no step changes the list or the running jobs
HandlerStepsLeaveJobs ==
    [][(cronJobs' # cronJobs \/ running' # running) =>
            lastOp'.op \in {"wake", "syncDone", "unhandledRejection"}]_vars

\* C22: the list cronJobs and the running state of every job change only
\* through syncCronJobs (its stop and clear, its for loop, its own failure):
\* an onTick, succeeding or failing, syncServers, and the message, reaction
\* and guild event handlers leave the list and the running jobs as they were.
C22_OnlySyncCronJobsWrites ==
    [][(cronJobs' # cronJobs \/ running' # running) =>
            \/ lastOp'.op \in {"wake", "syncDone"}
            \/ lastOp'.op = "unhandledRejection" /\ lastOp'.failed.op = "syncFailed"]_vars

====
